---- MODULE Spec2Model ----
(***************************************************************************)
(* Studicious: the pagination and multi-column layout of the study guide   *)
(* (createPdfDocument in App.tsx) and the two handlers that run it,        *)
(* generateStudyGuide and downloadPdf; and the handlers and effects that   *)
(* fill the concept list: the mount effects, fetchConcepts, the paste and  *)
(* upload handlers, the checkbox handler and the save to localStorage.     *)
(*                                                                         *)
(* Lengths are integers in thousandths of a millimetre (1 mm = 1000), and  *)
(* lineHeight is held in tenths (the control's step is 0.1), so that every *)
(* product of the source, lines * fontSize * lineHeight * 0.35 mm, is the  *)
(* integer lines * fontSize * lineHeight * 35.                             *)
(*                                                                         *)
(* A text is [len, nl, wrapped]: its character count and its number of     *)
(* '\n' characters after replaceSpecialChars, and the number of lines      *)
(* jsPDF's splitTextToSize returns for it at the run's font size and       *)
(* column width (the renderer is a function of the text and the config,    *)
(* and the config does not change during a behaviour).                     *)
(*                                                                         *)
(* jsPDF's a4 page is 841.89 pt = 297.00008 mm high; every y compared with *)
(* effectivePageHeight is a whole number of thousandths, so the comparison *)
(* gives the same answer with 297000. A placement records the page, the    *)
(* column and the y at which the concept's name is drawn; xPos is          *)
(* 10 + currentColumn * colWidth, a function of the column alone.          *)
(***************************************************************************)
EXTENDS Integers, Sequences, FiniteSets, TLC

VARIABLES
  concepts,          \* useState<ConceptState[]>
  headerFontSize,    \* pt
  bodyFontSize,      \* pt
  lineHeight,        \* multiplier, in tenths
  conceptsPerPage,   \* max concepts before a page break
  columnCount,       \* number of columns
  conceptSpacing,    \* thousandths of a mm
  headerDefSpacing,  \* thousandths of a mm
  pdfPreviewUrl,     \* 0 = null, else the id of a blob URL
  revoked,           \* blob URLs passed to URL.revokeObjectURL
  blobCount,         \* blob URLs created so far
  alerts,            \* calls of alert()
  toggles,           \* checkbox clicks so far
  pc,                \* position of the running handler
  caller,            \* the handler that called createPdfDocument
  idx,               \* forEach position in checkedConcepts (1-based)
  columnYPositions,  \* column index -> y of the column cursor
  currentColumn,
  conceptsOnPage,
  yPos,              \* the callback's local yPos
  pageCount,         \* pages of the jsPDF document
  headerPages,       \* page indexes on which "Study Guide" was drawn
  placements,        \* the concept texts drawn, in drawing order
  results,           \* what each finished createPdfDocument call produced
  loading,           \* useState(true)
  error,             \* "null" or the message shown
  localStorage,      \* the 'studyConceptsData' entry
  phase,             \* "unmounted" before the mount effects, then "mounted"
  fetchState,        \* where fetchConcepts is suspended
  reader,            \* files a FileReader is still reading
  source,            \* the array last given to processConcepts
  touched,           \* ids passed to handleCheckboxChange since then
  loads              \* pastes and uploads so far

cfgVars == <<headerFontSize, bodyFontSize, lineHeight, conceptsPerPage,
             columnCount, conceptSpacing, headerDefSpacing>>
urlVars == <<pdfPreviewUrl, revoked, blobCount>>
runVars == <<idx, columnYPositions, currentColumn, conceptsOnPage, yPos,
             pageCount, headerPages, placements>>
appVars == <<loading, error, localStorage, phase, fetchState, reader, source,
             touched, loads>>
vars == <<concepts, cfgVars, urlVars, alerts, toggles, pc, caller, runVars, results,
          appVars>>

----------------------------------------------------------------------------
(* Bounds of the model *)

MaxItems == 3
MaxShortItems == 5
MaxRuns == 2
MaxToggles == 1
MaxLoads == 2

----------------------------------------------------------------------------
(* Constants of the program *)

CharsPerLine == 40
Margin == 10000
PageHeight == 297000
NaN == -1

effectivePageHeight == PageHeight - 2 * Margin

CeilDiv(a, b) == (a + b - 1) \div b

(* Texts, after replaceSpecialChars *)
TShort == [len |-> 12, nl |-> 0, wrapped |-> 1]
TTall == [len |-> 2400, nl |-> 0, wrapped |-> 60]
TLongWord == [len |-> 2380, nl |-> 1, wrapped |-> 110]

Shapes ==
  { [name |-> TShort, definition |-> TShort, checked |-> TRUE],
    [name |-> TShort, definition |-> TTall, checked |-> TRUE],
    [name |-> TShort, definition |-> TLongWord, checked |-> TRUE],
    [name |-> TShort, definition |-> TShort, checked |-> FALSE] }

Styles ==
  { [headerFontSize |-> 7, bodyFontSize |-> 7, lineHeight |-> 10,
     conceptSpacing |-> 1000, headerDefSpacing |-> 500],
    [headerFontSize |-> 12, bodyFontSize |-> 10, lineHeight |-> 15,
     conceptSpacing |-> 3000, headerDefSpacing |-> 0] }

PerPageChoices == {1, 2, 100}
ColumnChoices == 1..3

(* Trivially short concepts only, for layouts decided by the count alone *)
ShortShapes ==
  { [name |-> TShort, definition |-> TShort, checked |-> TRUE],
    [name |-> TShort, definition |-> TShort, checked |-> FALSE] }

ShortPerPageChoices == {1, 2, 3}
ShortColumnChoices == 1..2

(* Lists loaded with every concept checked, for runs between checkbox clicks *)
EditShapes == {shape \in Shapes : shape.checked}

EditPerPageChoices == {1, 100}
EditColumnChoices == 1..2

(* createPdfDocument as a function of conceptsPerPage values the control  *)
(* never sets: 0 (no count limit, line 458) and a negative number.        *)
CorePerPageChoices == {-1, 0}
CoreColumnChoices == 1..2

----------------------------------------------------------------------------
(* createPdfDocument *)

----------------------------------------------------------------------------
(* JSON texts. A text is [kind, data]: "garbage" does not parse, "invalid"  *)
(* parses to something isValidConceptData rejects, "data" parses to the    *)
(* array data. An item of the array is [hasId, id, name, definition,       *)
(* checked, extra]: checked is "true", "false", "null" or "missing", and   *)
(* extra says whether the item carries a field the program does not know.  *)
(* The localStorage entry is a text or [kind |-> "absent"].                *)

Absent == [kind |-> "absent", data |-> << >>]
Garbage == [kind |-> "garbage", data |-> << >>]
Invalid == [kind |-> "invalid", data |-> << >>]

(* "escaped" is a text with a stray backslash in a definition line: it   *)
(* does not parse, and parses to data once handleJsonPaste has doubled the *)
(* backslash.                                                              *)
Parses(text) == text.kind \in {"invalid", "data"}

isValidConceptData(text) == text.kind = "data"

Sanitize(text) == IF text.kind = "escaped" THEN [text EXCEPT !.kind = "data"] ELSE text

RawItem(hasId, id, checked, extra) ==
  [hasId |-> hasId, id |-> id, name |-> TShort, definition |-> TShort,
   checked |-> checked, extra |-> extra]

RawPlain == RawItem(FALSE, 0, "missing", FALSE)
RawNull == RawItem(FALSE, 0, "null", TRUE)
RawFalse == RawItem(TRUE, 1, "false", FALSE)
RawTrue == RawItem(TRUE, 0, "true", FALSE)

(* Arrays a file, a paste or /concepts.json can hold *)
Docs ==
  { << >>, <<RawNull, RawFalse>>, <<RawPlain, RawTrue>> }

Texts ==
  {Garbage, Invalid, [kind |-> "escaped", data |-> <<RawPlain>>]}
    \cup {[kind |-> "data", data |-> doc] : doc \in Docs}

(* Files the user can pick: not a JSON file, a JSON file that cannot be   *)
(* read, a JSON file with some text.                                      *)
Files ==
  {[type |-> "text/plain", readable |-> TRUE, text |-> Garbage],
   [type |-> "application/json", readable |-> FALSE, text |-> Garbage]}
    \cup {[type |-> "application/json", readable |-> TRUE, text |-> text] :
            text \in {Garbage, Invalid, [kind |-> "data", data |-> <<RawNull, RawFalse>>]}}

CheckedUnlessFalseOrNull(checked) == checked \in {"true", "missing"}

(* concept.checked === false ? false : true *)
CheckedUnlessFalse(checked) == checked # "false"

processConcepts(data) ==
  [i \in DOMAIN data |->
     [id |-> IF data[i].hasId THEN data[i].id ELSE i - 1,
      name |-> data[i].name,
      definition |-> data[i].definition,
      checked |-> CheckedUnlessFalse(data[i].checked),
      extra |-> data[i].extra]]

(* dataToSave and JSON.stringify of the save effect *)
Stringify(cs) ==
  [kind |-> "data",
   data |-> [i \in DOMAIN cs |->
               [hasId |-> TRUE, id |-> cs[i].id, name |-> cs[i].name,
                definition |-> cs[i].definition,
                checked |-> IF cs[i].checked THEN "true" ELSE "false",
                extra |-> FALSE]]]

SaveEffectAlways(cs, entry) == Stringify(cs)

(* the effect that runs after every render in which concepts changed *)
SaveEffect(cs, entry) == IF Len(cs) > 0 THEN Stringify(cs) ELSE entry

IsChecked(concept) == concept.checked

NoneCheckedNever(checked) == Len(checked) < 0

NoneChecked(checked) == Len(checked) = 0

checkedConcepts == SelectSeq(concepts, IsChecked)

EstLines(text) == CeilDiv(text.len, CharsPerLine) + text.nl

SplitTextToSizeEstimated(text) == (text.len + CharsPerLine - 1) \div CharsPerLine + text.nl

SplitTextToSize(text) == text.wrapped

EstimatedHeight(concept) ==
  EstLines(concept.name) * (bodyFontSize + 2) * lineHeight * 35
  + EstLines(concept.definition) * bodyFontSize * lineHeight * 35
  + conceptSpacing

InitialY == Margin + headerFontSize * 500

StaleCursorTable ==
  IF DOMAIN columnYPositions = 0..(columnCount - 1)
  THEN columnYPositions
  ELSE [c \in 0..(columnCount - 1) |-> Margin + headerFontSize * 500]

NewCursorTable == [c \in 0..(columnCount - 1) |-> InitialY]

ColumnY(table, c) == IF c \in DOMAIN table THEN table[c] ELSE NaN

PageBreakNeededByCountLate(perPage, onPage) == perPage > 0 /\ onPage > perPage

PageBreakNeededByCountOnce(perPage, onPage) == perPage > 0 /\ onPage = perPage

PageBreakNeededByCount(perPage, onPage) == perPage > 0 /\ onPage >= perPage

PageBreakNeededByHeightInverted(y, estimatedHeight) ==
  y # NaN /\ y + estimatedHeight < PageHeight - 2 * Margin

PageBreakNeededByHeight(y, estimatedHeight) ==
  y # NaN /\ y + estimatedHeight > effectivePageHeight

HasNextColumnOffByOne(column, count) == column < count

HasNextColumnEarly(column, count) == column < count - 2

HasNextColumn(column, count) == column < count - 1

ResetFirstColumnOnly(table) ==
  [c \in DOMAIN table |-> IF c = 0 THEN Margin + headerFontSize * 500 ELSE table[c]]

(* columnYPositions.fill(10 + headerFontSize * 0.5) *)
ResetCursorTable(table) == [c \in DOMAIN table |-> InitialY]

AddPageForgotten(pages) == pages

AddPageTwice(pages) == pages + 2

AddPage(pages) == pages + 1

CommitYNotAdvanced(y, nameLines, defLines) == y

CommitY(y, nameLines, defLines) ==
  IF y = NaN THEN NaN
  ELSE y + nameLines * (bodyFontSize + 2) * lineHeight * 35 + headerDefSpacing
         + defLines * bodyFontSize * lineHeight * 35 + conceptSpacing

ForEachMoreButLast(i, n) == i < n - 1

(* checkedConcepts.forEach: is there an element after the i-th of n? *)
ForEachMore(i, n) == i < n

----------------------------------------------------------------------------
(* State after the component has loaded a concept list and the controls   *)
(* have been set: ids are the array indexes processConcepts falls back to. *)

InitWith(shapes, maxLen, perPage, columns) ==
  /\ \E n \in 0..maxLen : \E f \in [1..n -> shapes] :
       concepts = [i \in 1..n |->
                     [id |-> i - 1, name |-> f[i].name,
                      definition |-> f[i].definition, checked |-> f[i].checked]]
  /\ \E s \in Styles :
       /\ headerFontSize = s.headerFontSize
       /\ bodyFontSize = s.bodyFontSize
       /\ lineHeight = s.lineHeight
       /\ conceptSpacing = s.conceptSpacing
       /\ headerDefSpacing = s.headerDefSpacing
  /\ conceptsPerPage \in perPage
  /\ columnCount \in columns
  /\ pdfPreviewUrl = 0
  /\ revoked = {}
  /\ blobCount = 0
  /\ alerts = 0
  /\ toggles = 0
  /\ pc = "idle"
  /\ caller = "none"
  /\ idx = 0
  /\ columnYPositions = << >>
  /\ currentColumn = 0
  /\ conceptsOnPage = 0
  /\ yPos = 0
  /\ pageCount = 0
  /\ headerPages = << >>
  /\ placements = << >>
  /\ results = << >>
  /\ loading = FALSE
  /\ error = "null"
  /\ localStorage = SaveEffect(concepts, Absent)
  /\ phase = "mounted"
  /\ fetchState = "done"
  /\ reader = << >>
  /\ source = Stringify(concepts).data
  /\ touched = {}
  /\ loads = 0

Init == InitWith(Shapes, MaxItems, PerPageChoices, ColumnChoices)

InitShort ==
  InitWith(ShortShapes, MaxShortItems, ShortPerPageChoices, ShortColumnChoices)

InitEdit == InitWith(EditShapes, MaxItems, EditPerPageChoices, EditColumnChoices)

(* What the 'studyConceptsData' entry can hold when the page is opened *)
InitialEntries ==
  {Absent, Garbage, Invalid, [kind |-> "data", data |-> << >>],
   Stringify(processConcepts(<<RawPlain, RawFalse>>))}

(* The state of the first render: the useState defaults *)
InitApp ==
  /\ concepts = << >>
  /\ headerFontSize = 7
  /\ bodyFontSize = 7
  /\ lineHeight = 10
  /\ conceptsPerPage = 100
  /\ columnCount = 1
  /\ conceptSpacing = 1000
  /\ headerDefSpacing = 500
  /\ pdfPreviewUrl = 0
  /\ revoked = {}
  /\ blobCount = 0
  /\ alerts = 0
  /\ toggles = 0
  /\ pc = "idle"
  /\ caller = "none"
  /\ idx = 0
  /\ columnYPositions = << >>
  /\ currentColumn = 0
  /\ conceptsOnPage = 0
  /\ yPos = 0
  /\ pageCount = 0
  /\ headerPages = << >>
  /\ placements = << >>
  /\ results = << >>
  /\ loading = TRUE
  /\ error = "null"
  /\ localStorage \in InitialEntries
  /\ phase = "unmounted"
  /\ fetchState = "none"
  /\ reader = << >>
  /\ source = << >>
  /\ touched = {}
  /\ loads = 0

(* The configuration of useState: 100 concepts per page, one column *)
InitConfig == InitWith(EditShapes, MaxItems, {100}, {1})

InitCore == InitWith(Shapes, MaxItems, CorePerPageChoices, CoreColumnChoices)

MainViewIdleDespiteError == phase = "mounted" /\ ~loading /\ pc = "idle"

(* The main view, with its controls, is rendered only without loading and *)
(* error; a handler starts only when no other one is running.             *)
MainViewIdle == phase = "mounted" /\ ~loading /\ error = "null" /\ pc = "idle"

(* A click on a concept card or its checkbox. No handler runs while       *)
(* another one is running.                                                *)
handleCheckboxChange(id) ==
  /\ MainViewIdle
  /\ toggles < MaxToggles
  /\ toggles' = toggles + 1
  /\ concepts' = [i \in DOMAIN concepts |->
                    IF concepts[i].id = id
                    THEN [concepts[i] EXCEPT !.checked = ~concepts[i].checked]
                    ELSE concepts[i]]
  /\ localStorage' = SaveEffect(concepts', localStorage)
  /\ touched' = touched \cup {id}
  /\ UNCHANGED <<cfgVars, urlVars, alerts, pc, caller, runVars, results>>
  /\ UNCHANGED <<loading, error, phase, fetchState, reader, source, loads>>

(* What a user can leave in the Columns input (e.target.value), and       *)
(* parseInt(value, 10) of it: << >> is NaN, <<n>> the number n.           *)
TypedValues == {"", "abc", "0", "-2", "2", "3", "4", "2.7"}

ParseInt(value) ==
  CASE value = "0" -> <<0>>
    [] value = "-2" -> <<0 - 2>>
    [] value = "2" -> <<2>>
    [] value = "3" -> <<3>>
    [] value = "4" -> <<4>>
    [] value = "2.7" -> <<2>>
    [] OTHER -> << >>

(* Math.max(1, n) || 1 *)
MaxOneOrOne(n) ==
  LET m == IF n = << >> THEN << >> ELSE << IF n[1] > 1 THEN n[1] ELSE 1 >>
  IN IF m = << >> \/ m[1] = 0 THEN 1 ELSE m[1]

(* onChange of the Columns input *)
columnCountOnChange(value) ==
  /\ MainViewIdle
  /\ columnCount' = MaxOneOrOne(ParseInt(value))
  /\ UNCHANGED <<concepts, headerFontSize, bodyFontSize, lineHeight, conceptsPerPage,
                 conceptSpacing, headerDefSpacing, urlVars, alerts, toggles, pc,
                 caller, runVars, results, appVars>>

(* What the data handlers leave alone *)
layoutVars == <<cfgVars, urlVars, alerts, toggles, pc, caller, runVars, results>>

(* setConcepts(processConcepts(data)) and the save effect of the render   *)
(* that follows it.                                                       *)
SetConcepts(data) ==
  /\ concepts' = processConcepts(data)
  /\ localStorage' = SaveEffect(concepts', localStorage)
  /\ source' = data
  /\ touched' = {}

KeepConcepts == UNCHANGED <<concepts, localStorage, source, touched>>

(* The effects of the first render, in the order of their declaration:    *)
(* the save effect (concepts is still []), fetchConcepts up to its first  *)
(* await or return, and the effect that blanks the list. The state        *)
(* updates are applied together, the last setConcepts and setLoading win, *)
(* and the save effect runs again after the render they cause.            *)
Mount ==
  /\ phase = "unmounted"
  /\ LET saved == SaveEffect(concepts, localStorage)
         fromStorage == saved.kind # "absent" /\ isValidConceptData(saved)
         fetched == IF fromStorage THEN processConcepts(saved.data) ELSE concepts
         blanked == << >>
     IN /\ fetchState' = IF fromStorage THEN "done" ELSE "response"
        /\ concepts' = blanked
        /\ localStorage' = SaveEffect(blanked, saved)
        /\ source' = << >>
        /\ touched' = {}
  /\ loading' = FALSE
  /\ error' = "null"
  /\ phase' = "mounted"
  /\ UNCHANGED <<layoutVars, reader, loads>>

(* fetch('/concepts.json') settles: a response that is not ok, or a       *)
(* rejection, ends in the catch and the finally block.                    *)
FetchResponse ==
  /\ fetchState = "response"
  /\ pc = "idle"
  /\ \E ok \in BOOLEAN :
       IF ok
       THEN /\ fetchState' = "json"
            /\ UNCHANGED <<loading, error>>
       ELSE /\ fetchState' = "done"
            /\ error' = "Failed to load concepts"
            /\ loading' = FALSE
  /\ KeepConcepts
  /\ UNCHANGED <<layoutVars, phase, reader, loads>>

(* response.json() settles *)
FetchJson ==
  /\ fetchState = "json"
  /\ pc = "idle"
  /\ \E body \in Texts :
       IF Parses(body) /\ isValidConceptData(body)
       THEN SetConcepts(body.data) /\ UNCHANGED error
       ELSE KeepConcepts /\ error' = "Failed to load concepts"
  /\ loading' = FALSE
  /\ fetchState' = "done"
  /\ UNCHANGED <<layoutVars, phase, reader, loads>>

(* The "Process & Load JSON" button, with text in the textarea *)
handleJsonPaste(text) ==
  /\ MainViewIdle
  /\ loads < MaxLoads
  /\ loads' = loads + 1
  /\ IF Parses(text)
     THEN IF isValidConceptData(text)
          THEN SetConcepts(text.data) /\ error' = "null"
          ELSE KeepConcepts /\ error' = "Invalid JSON format"
     ELSE LET sanitized == Sanitize(text)
          IN IF Parses(sanitized) /\ isValidConceptData(sanitized)
             THEN SetConcepts(sanitized.data) /\ error' = "null"
             ELSE KeepConcepts /\ error' = "Failed to parse JSON"
  /\ UNCHANGED <<layoutVars, loading, phase, fetchState, reader>>

(* The file input: a JSON file is handed to a FileReader *)
handleFileUpload(file) ==
  /\ MainViewIdle
  /\ loads < MaxLoads
  /\ loads' = loads + 1
  /\ IF file.type = "application/json"
     THEN reader' = Append(reader, file) /\ error' = "null"
     ELSE error' = "Please upload a valid JSON file" /\ UNCHANGED reader
  /\ KeepConcepts
  /\ UNCHANGED <<layoutVars, loading, phase, fetchState>>

(* reader.onload or reader.onerror of one of the files being read *)
ReaderSettles(k) ==
  /\ pc = "idle"
  /\ LET file == reader[k]
     IN IF ~file.readable
        THEN KeepConcepts /\ error' = "Failed to read the uploaded file"
        ELSE IF ~Parses(file.text)
             THEN KeepConcepts /\ error' = "Failed to parse JSON"
             ELSE IF isValidConceptData(file.text)
                  THEN SetConcepts(file.text.data) /\ UNCHANGED error
                  ELSE KeepConcepts /\ error' = "Invalid JSON format"
  /\ reader' = [i \in 1..(Len(reader) - 1) |-> IF i < k THEN reader[i] ELSE reader[i + 1]]
  /\ UNCHANGED <<layoutVars, loading, phase, fetchState, loads>>

(* createPdfDocument up to the forEach: the empty check, the new document, *)
(* the cursor table and the first page's header.                           *)
CreatePdfDocumentBegin ==
  IF NoneChecked(checkedConcepts)
  THEN /\ alerts' = alerts + 1
       /\ results' = Append(results, [isNull |-> TRUE, pages |-> 0, placements |-> << >>,
                                      concepts |-> concepts, config |-> cfgVars])
       /\ pc' = "idle"
       /\ UNCHANGED runVars
  ELSE /\ pageCount' = 1
       /\ columnYPositions' = NewCursorTable
       /\ currentColumn' = 0
       /\ conceptsOnPage' = 0
       /\ headerPages' = << 0 >>
       /\ placements' = << >>
       /\ idx' = 1
       /\ yPos' = 0
       /\ pc' = IF ForEachMore(0, Len(checkedConcepts)) THEN "advance" ELSE "return"
       /\ UNCHANGED <<alerts, results>>

generateStudyGuide ==
  /\ MainViewIdle
  /\ Len(results) < MaxRuns
  /\ revoked' = IF pdfPreviewUrl # 0 THEN revoked \cup {pdfPreviewUrl} ELSE revoked
  /\ caller' = "generateStudyGuide"
  /\ CreatePdfDocumentBegin
  /\ UNCHANGED <<concepts, cfgVars, pdfPreviewUrl, blobCount, toggles, appVars>>

(* The download button is rendered only while pdfPreviewUrl is set. *)
downloadPdf ==
  /\ MainViewIdle
  /\ pdfPreviewUrl # 0
  /\ Len(results) < MaxRuns
  /\ caller' = "downloadPdf"
  /\ CreatePdfDocumentBegin
  /\ UNCHANGED <<concepts, cfgVars, urlVars, toggles, appVars>>

(* The forEach callback up to the drawing: estimate, the two predicates,   *)
(* and the move to the next column or to a new page.                       *)
Advance ==
  /\ pc = "advance"
  /\ LET concept == checkedConcepts[idx]
         y == ColumnY(columnYPositions, currentColumn)
         byCount == PageBreakNeededByCount(conceptsPerPage, conceptsOnPage)
         byHeight == PageBreakNeededByHeight(y, EstimatedHeight(concept))
     IN IF byCount \/ byHeight
        THEN IF HasNextColumn(currentColumn, columnCount)
             THEN /\ currentColumn' = currentColumn + 1
                  /\ yPos' = ColumnY(columnYPositions, currentColumn + 1)
                  /\ UNCHANGED <<columnYPositions, conceptsOnPage, pageCount, headerPages>>
             ELSE /\ pageCount' = AddPage(pageCount)
                  /\ columnYPositions' = ResetCursorTable(columnYPositions)
                  /\ currentColumn' = 0
                  /\ yPos' = ColumnY(columnYPositions', 0)
                  /\ conceptsOnPage' = 0
                  /\ headerPages' = Append(headerPages, pageCount' - 1)
        ELSE /\ yPos' = y
             /\ UNCHANGED <<columnYPositions, currentColumn, conceptsOnPage,
                            pageCount, headerPages>>
  /\ pc' = "commit"
  /\ UNCHANGED <<concepts, cfgVars, urlVars, alerts, toggles, caller, idx, placements, results,
               appVars>>

(* Commit with the overflow check repeated on the exact line counts: the  *)
(* concept moves to a new page when its wrapped text overflows the column. *)
CommitWithRecheck ==
  /\ pc = "commit"
  /\ LET concept == checkedConcepts[idx]
         nameLines == concept.name.wrapped
         defLines == concept.definition.wrapped
         exact == nameLines * (bodyFontSize + 2) * lineHeight * 35 + headerDefSpacing
                  + defLines * bodyFontSize * lineHeight * 35 + conceptSpacing
     IN IF yPos + exact > PageHeight - 2 * Margin
        THEN /\ pageCount' = pageCount + 1
             /\ headerPages' = Append(headerPages, pageCount)
             /\ currentColumn' = 0
             /\ conceptsOnPage' = 1
             /\ placements' = Append(placements,
                                 [id |-> concept.id, page |-> pageCount,
                                  column |-> 0, y |-> Margin + headerFontSize * 500])
             /\ yPos' = Margin + headerFontSize * 500 + exact
             /\ columnYPositions' =
                  [c \in DOMAIN columnYPositions |->
                     IF c = 0 THEN yPos' ELSE Margin + headerFontSize * 500]
        ELSE /\ placements' = Append(placements,
                                 [id |-> concept.id, page |-> pageCount - 1,
                                  column |-> currentColumn, y |-> yPos])
             /\ yPos' = yPos + exact
             /\ columnYPositions' = [columnYPositions EXCEPT ![currentColumn] = yPos']
             /\ conceptsOnPage' = conceptsOnPage + 1
             /\ UNCHANGED <<currentColumn, pageCount, headerPages>>
  /\ idx' = idx + 1
  /\ pc' = IF idx < Len(checkedConcepts) THEN "advance" ELSE "return"
  /\ UNCHANGED <<concepts, cfgVars, urlVars, alerts, toggles, caller, results,
               appVars>>

(* The rest of the callback: wrap and draw the name and the definition at  *)
(* yPos, store the advanced cursor, count the concept.                     *)
Commit ==
  /\ pc = "commit"
  /\ LET concept == checkedConcepts[idx]
         nameLines == SplitTextToSize(concept.name)
         defLines == SplitTextToSize(concept.definition)
     IN /\ placements' = Append(placements,
                            [id |-> concept.id, page |-> pageCount - 1,
                             column |-> currentColumn, y |-> yPos])
        /\ yPos' = CommitY(yPos, nameLines, defLines)
        /\ columnYPositions' =
             [c \in DOMAIN columnYPositions \cup {currentColumn} |->
                IF c = currentColumn THEN yPos' ELSE columnYPositions[c]]
  /\ conceptsOnPage' = conceptsOnPage + 1
  /\ idx' = idx + 1
  /\ pc' = IF ForEachMore(idx, Len(checkedConcepts)) THEN "advance" ELSE "return"
  /\ UNCHANGED <<concepts, cfgVars, urlVars, alerts, toggles, caller, currentColumn,
                 pageCount, headerPages, results, appVars>>

(* return doc, and what the calling handler does with it. *)
Return ==
  /\ pc = "return"
  /\ results' = Append(results, [isNull |-> FALSE, pages |-> pageCount,
                                 placements |-> placements,
                                 concepts |-> concepts, config |-> cfgVars])
  /\ IF caller = "generateStudyGuide"
     THEN /\ blobCount' = blobCount + 1
          /\ pdfPreviewUrl' = blobCount + 1
          /\ UNCHANGED revoked
     ELSE UNCHANGED urlVars
  /\ pc' = "idle"
  /\ UNCHANGED <<concepts, cfgVars, alerts, toggles, caller, runVars,
               appVars>>

Next ==
  \/ generateStudyGuide
  \/ downloadPdf
  \/ Advance
  \/ Commit
  \/ Return

(* The layout handlers, from any loaded list and config *)
Spec == Init /\ [][Next]_vars

(* The layout handlers on trivially short concepts *)
SpecShort == InitShort /\ [][Next]_vars

(* createPdfDocument on a config outside the controls' range *)
SpecCore == InitCore /\ [][Next]_vars

NextConfig ==
  \/ \E value \in TypedValues : columnCountOnChange(value)
  \/ Next

(* Edits of the Columns input between runs *)
SpecConfig == InitConfig /\ [][NextConfig]_vars

NextApp ==
  \/ Mount
  \/ FetchResponse
  \/ FetchJson
  \/ \E text \in Texts : handleJsonPaste(text)
  \/ \E file \in Files : handleFileUpload(file)
  \/ \E k \in DOMAIN reader : ReaderSettles(k)
  \/ \E i \in DOMAIN concepts : handleCheckboxChange(concepts[i].id)
  \/ Next

(* The page from its first render: loading, pasting, uploading, checking  *)
(* and laying out.                                                        *)
SpecApp == InitApp /\ [][NextApp]_vars

NextEdit ==
  \/ \E i \in DOMAIN concepts : handleCheckboxChange(concepts[i].id)
  \/ Next

(* The layout handlers interleaved with checkbox clicks *)
SpecEdit == InitEdit /\ [][NextEdit]_vars

----------------------------------------------------------------------------
(* Properties of the layout *)

Running == pc \in {"advance", "commit", "return"}

OnPage(P, p) == Cardinality({i \in DOMAIN P : P[i].page = p})

(* The documents this behaviour has laid out: the one under construction   *)
(* and every finished one.                                                 *)
Layouts == {placements} \cup {results[k].placements : k \in DOMAIN results}

(* C1: with conceptsPerPage = M > 0 and columnCount in 1..3, no page holds *)
(* more than M placed concepts, counted across all its columns.            *)
C1_CountCap ==
  (conceptsPerPage > 0 /\ columnCount \in 1..3) =>
    \A P \in Layouts : \A i \in DOMAIN P : OnPage(P, P[i].page) <= conceptsPerPage

(* The ids of the concepts of list cs whose checked flag is true, in list order *)
ExpectedIds(cs) ==
  LET chosen == SelectSeq(cs, LAMBDA c : c.checked = TRUE)
  IN [i \in 1..Len(chosen) |-> chosen[i].id]

IdsOf(P) == [i \in 1..Len(P) |-> P[i].id]

(* C2: a finished layout of N checked concepts holds exactly N placements, *)
(* one per concept, in the order of the concept list: none is dropped,     *)
(* duplicated or reordered by a column advance or a page break.            *)
C2_Coverage ==
  /\ pc = "return" => IdsOf(placements) = ExpectedIds(concepts)
  /\ \A k \in DOMAIN results :
       ~results[k].isNull =>
         IdsOf(results[k].placements) = ExpectedIds(results[k].concepts)

FitsEmptyPage(concept) == InitialY + EstimatedHeight(concept) <= effectivePageHeight

C2_Witness ==
  /\ pc = "return"
  /\ Len(placements) = 3
  /\ pageCount >= 2
  /\ \E i \in DOMAIN placements : placements[i].column > 0
  /\ \E i \in DOMAIN checkedConcepts : ~FitsEmptyPage(checkedConcepts[i])

C3_Precondition ==
  /\ bodyFontSize > 0 /\ headerFontSize > 0 /\ lineHeight > 0
  /\ conceptSpacing >= 0 /\ headerDefSpacing >= 0
  /\ \A i \in DOMAIN concepts :
       SplitTextToSize(concepts[i].name) >= 1 /\ SplitTextToSize(concepts[i].definition) >= 1

(* C3: with positive font sizes and line height, non-negative spacings and *)
(* a renderer returning at least one line per text, two placements in the  *)
(* same column of the same page have strictly increasing y.                *)
C3_MonotonicCursor ==
  C3_Precondition =>
    \A P \in Layouts : \A i, j \in DOMAIN P :
      (i < j /\ P[i].page = P[j].page /\ P[i].column = P[j].column) => P[i].y < P[j].y

C3_Witness ==
  /\ C3_Precondition
  /\ \E i, j \in DOMAIN placements :
       /\ i < j
       /\ placements[i].page = placements[j].page
       /\ placements[i].column = placements[j].column
       /\ placements[j].column > 0

(* C4: between consecutive placements the column never decreases on a     *)
(* page, and it returns to 0 only together with a page break.             *)
C4_ColumnOrder ==
  \A P \in Layouts : \A i \in DOMAIN P :
    i < Len(P) =>
      /\ P[i + 1].page = P[i].page => P[i + 1].column >= P[i].column
      /\ P[i + 1].column < P[i].column =>
           (P[i + 1].column = 0 /\ P[i + 1].page = P[i].page + 1)

C4_Witness ==
  \E i \in DOMAIN placements :
    /\ i + 1 < Len(placements)
    /\ placements[i].column = 0 /\ placements[i + 1].column = 1
    /\ placements[i + 1].page = placements[i].page
    /\ placements[i + 2].column = 0
    /\ placements[i + 2].page = placements[i].page + 1

(* C5: the page indexes of the placements never decrease, and rise by at  *)
(* most one from a placement to the next.                                 *)
C5_PageOrder ==
  \A P \in Layouts : \A i \in DOMAIN P :
    i < Len(P) => P[i + 1].page - P[i].page \in {0, 1}

C5_Witness ==
  /\ Len(placements) = 3
  /\ placements[1].page = placements[2].page
  /\ placements[3].page = placements[2].page + 1

(* C6: with columnCount >= 1 the current column is always an index of the *)
(* cursor table, so is every placement's column, and no cursor read       *)
(* misses the table.                                                      *)
C6_ColumnBound ==
  (columnCount >= 1 /\ Running) =>
    /\ currentColumn \in 0..(columnCount - 1)
    /\ DOMAIN columnYPositions = 0..(columnCount - 1)
    /\ \A c \in DOMAIN columnYPositions : columnYPositions[c] # NaN
    /\ pc = "commit" => yPos # NaN
    /\ \A i \in DOMAIN placements : placements[i].column \in 0..(columnCount - 1)

C6_Witness ==
  /\ pc = "commit"
  /\ columnCount = 3
  /\ currentColumn = 2
  /\ Len(placements) = 2

(* Every checked concept is one estimated and one wrapped line per text,  *)
(* and all of them together fit on one page.                              *)
ShortEnough ==
  \A i \in DOMAIN checkedConcepts :
    LET c == checkedConcepts[i]
    IN /\ EstLines(c.name) = 1 /\ EstLines(c.definition) = 1
       /\ SplitTextToSize(c.name) = 1 /\ SplitTextToSize(c.definition) = 1
       /\ InitialY + Len(checkedConcepts) * (EstimatedHeight(c) + headerDefSpacing)
            <= effectivePageHeight

PagesOf(P) == [i \in 1..Len(P) |-> P[i].page]

(* C7: one column, conceptsPerPage = M > 0 and concepts short enough for *)
(* the height predicate never to hold: the k-th placed concept (from 0)   *)
(* is on page k div M, and N concepts make ceil(N / M) pages.             *)
C7_CountPaging ==
  (columnCount = 1 /\ conceptsPerPage > 0 /\ ShortEnough) =>
    /\ \A P \in Layouts : \A i \in DOMAIN P :
         P[i].page = (i - 1) \div conceptsPerPage
    /\ pc = "return" =>
         pageCount = CeilDiv(Len(checkedConcepts), conceptsPerPage)
    /\ \A k \in DOMAIN results :
         ~results[k].isNull =>
           results[k].pages =
             CeilDiv(Len(ExpectedIds(results[k].concepts)), conceptsPerPage)

C7_Witness ==
  /\ columnCount = 1 /\ conceptsPerPage = 2 /\ ShortEnough
  /\ pc = "return"
  /\ PagesOf(placements) = <<0, 0, 1, 1, 2>>
  /\ pageCount = 3

C8_Step ==
  LET concept == checkedConcepts[idx]
      countOverflow == conceptsPerPage > 0 /\ conceptsOnPage >= conceptsPerPage
      heightOverflow ==
        columnYPositions[currentColumn] + EstimatedHeight(concept) > effectivePageHeight
  IN /\ (pc = "advance" /\ ~countOverflow /\ ~heightOverflow) =>
          /\ currentColumn' = currentColumn
          /\ pageCount' = pageCount
          /\ yPos' = columnYPositions[currentColumn]
     /\ (pc = "advance" /\ ~countOverflow /\ currentColumn' # currentColumn) =>
          heightOverflow
     /\ pc = "commit" =>
          /\ placements'[Len(placements')].column = currentColumn
          /\ placements'[Len(placements')].page = pageCount - 1

(* C8: a concept for which neither the count predicate nor the height     *)
(* predicate holds is placed in the current column of the current page;   *)
(* while the count predicate is false the column changes only at a        *)
(* concept whose estimated height overflows the current column.           *)
C8_ColumnSequential == [][C8_Step]_vars

C8_Witness ==
  /\ columnCount = 2 /\ conceptsPerPage > MaxItems
  /\ Len(placements) = 3
  /\ placements[1].column = 0 /\ placements[2].column = 0 /\ placements[3].column = 1
  /\ placements[1].page = 0 /\ placements[3].page = 0

C9_Step ==
  /\ pc = "advance" =>
       /\ placements' = placements
       /\ yPos' = columnYPositions'[currentColumn']
  /\ pc = "commit" =>
       /\ Len(placements') = Len(placements) + 1
       /\ placements'[Len(placements')].y = yPos
       /\ placements'[Len(placements')].page = pageCount - 1
       /\ placements'[Len(placements')].column = currentColumn
       /\ currentColumn' = currentColumn
       /\ pageCount' = pageCount
       /\ headerPages' = headerPages
       /\ pc' \in {"advance", "return"}

(* C9: a concept is drawn at the cursor chosen before its text is         *)
(* wrapped; the commit moves neither the column nor the page, whatever    *)
(* the exact line counts are, and the run goes on to the next concept.    *)
C9_EstimateThenCommit == [][C9_Step]_vars

C9_Witness ==
  /\ pc = "return"
  /\ LET n == Len(placements)
         c == checkedConcepts[n]
     IN /\ SplitTextToSize(c.definition) > EstLines(c.definition)
        /\ placements[n].y + EstimatedHeight(c) <= effectivePageHeight
        /\ columnYPositions[placements[n].column] > effectivePageHeight
        /\ placements[n].page = pageCount - 1

(* C10: two createPdfDocument calls on the same concepts and the same     *)
(* config produce the same placements and page count, and each call       *)
(* starts at column 0 with no concept on the page and fresh cursors.      *)
C10_Idempotent ==
  /\ \A j, k \in DOMAIN results :
       (results[j].concepts = results[k].concepts /\ results[j].config = results[k].config)
         => /\ results[j].placements = results[k].placements
            /\ results[j].pages = results[k].pages
            /\ results[j].isNull = results[k].isNull
  /\ (pc = "advance" /\ idx = 1) =>
       /\ currentColumn = 0
       /\ conceptsOnPage = 0
       /\ columnYPositions = [c \in 0..(columnCount - 1) |-> InitialY]

C10_Witness ==
  /\ Len(results) = 2
  /\ caller = "downloadPdf"
  /\ results[1].concepts = results[2].concepts
  /\ results[1].config = results[2].config
  /\ ~results[1].isNull
  /\ results[2].pages >= 2
  /\ Len(results[2].placements) = 3

----------------------------------------------------------------------------
(* Properties of createPdfDocument's steps *)

LastOf(P) == P[Len(P)]

C11_Step ==
  /\ (pc = "idle" /\ Len(ExpectedIds(concepts)) = 0) =>
       /\ alerts' = alerts + 1
       /\ pc' = "idle"
       /\ Len(results') = Len(results) + 1
       /\ LastOf(results').isNull
       /\ UNCHANGED runVars
  /\ pc' \in {"advance", "commit", "return"} => Len(ExpectedIds(concepts')) > 0

(* C11: with no concept checked, createPdfDocument alerts and returns     *)
(* null before it creates a document, a page, a header or a placement;    *)
(* the forEach is never entered with zero concepts.                       *)
C11_EmptyRefused == [][C11_Step]_vars

C11_Witness ==
  /\ Len(concepts) > 0
  /\ alerts = 1
  /\ Len(results) = 1 /\ results[1].isNull
  /\ pageCount = 0 /\ headerPages = << >> /\ placements = << >>

CountOverflow == conceptsPerPage > 0 /\ conceptsOnPage >= conceptsPerPage

HeightOverflow ==
  columnYPositions[currentColumn] + EstimatedHeight(checkedConcepts[idx])
    > effectivePageHeight

C15_Step ==
  (pc = "advance" /\ (CountOverflow \/ HeightOverflow)
     /\ currentColumn < columnCount - 1) =>
    /\ currentColumn' = currentColumn + 1
    /\ yPos' = columnYPositions[currentColumn + 1]
    /\ pageCount' = pageCount
    /\ headerPages' = headerPages
    /\ columnYPositions' = columnYPositions
    /\ conceptsOnPage' = conceptsOnPage

(* C15: when a predicate holds and a next column exists, the step raises  *)
(* the column by exactly 1 and takes that column's existing cursor; the   *)
(* page, every cursor and conceptsOnPage are unchanged.                   *)
C15_ColumnAdvance == [][C15_Step]_vars

C15_Witness ==
  /\ pc = "commit"
  /\ columnCount = 3
  /\ currentColumn = 2
  /\ pageCount = 1
  /\ conceptsOnPage = 2
  /\ yPos = columnYPositions[2]
  /\ columnYPositions[0] > InitialY /\ columnYPositions[1] > InitialY

C16_Step ==
  /\ (pc = "advance" /\ (CountOverflow \/ HeightOverflow)
        /\ currentColumn = columnCount - 1) =>
       /\ pageCount' = pageCount + 1
       /\ currentColumn' = 0
       /\ conceptsOnPage' = 0
       /\ columnYPositions' = [c \in 0..(columnCount - 1) |-> InitialY]
       /\ headerPages' = Append(headerPages, pageCount)
       /\ placements' = placements
       /\ yPos' = InitialY
  /\ pc = "commit" =>
       /\ LastOf(placements').page = LastOf(headerPages)
       /\ LastOf(placements').column = currentColumn
       /\ LastOf(placements').y = yPos

(* C16: when a predicate holds in the last column, the step adds one      *)
(* page, sets the column and conceptsOnPage to 0, resets every cursor to  *)
(* the initial y and draws the header on the new page before the          *)
(* concept's text, which is then placed at the initial y of column 0.     *)
C16_PageBreak == [][C16_Step]_vars

C16_Witness ==
  /\ pc \in {"advance", "return"}
  /\ columnCount = 2
  /\ pageCount = 2
  /\ headerPages = <<0, 1>>
  /\ Len(placements) = 3
  /\ placements[2].column = 1 /\ placements[2].page = 0
  /\ placements[3] = [id |-> placements[3].id, page |-> 1, column |-> 0, y |-> InitialY]
  /\ columnYPositions[1] = InitialY

ExactHeight(concept) ==
  concept.name.wrapped * (bodyFontSize + 2) * lineHeight * 35 + headerDefSpacing
  + concept.definition.wrapped * bodyFontSize * lineHeight * 35 + conceptSpacing

C17_Step ==
  pc = "commit" =>
    /\ columnYPositions'[currentColumn] =
         columnYPositions[currentColumn] + ExactHeight(checkedConcepts[idx])
    /\ \A c \in DOMAIN columnYPositions :
         c # currentColumn => columnYPositions'[c] = columnYPositions[c]
    /\ DOMAIN columnYPositions' = DOMAIN columnYPositions
    /\ currentColumn' = currentColumn
    /\ pageCount' = pageCount
    /\ conceptsOnPage' = conceptsOnPage + 1

(* C17: the commit advances the cursor of the concept's column by the     *)
(* height of the renderer's exact name and definition lines plus          *)
(* headerDefSpacing plus conceptSpacing; the other cursors, the column    *)
(* and the page are unchanged and conceptsOnPage rises by 1.              *)
C17_Commit == [][C17_Step]_vars

C17_Witness ==
  /\ pc \in {"advance", "return"}
  /\ columnCount = 2
  /\ Len(placements) = 2
  /\ LET c == checkedConcepts[2]
     IN /\ c.definition.wrapped > EstLines(c.definition)
        /\ placements[2].column = 1
        /\ columnYPositions[1] = placements[2].y + ExactHeight(c)
        /\ columnYPositions[0] > InitialY
        /\ conceptsOnPage = 2

(* C18: the estimated height is the estimated name and definition lines,  *)
(* scaled by font size and line height, plus conceptSpacing and           *)
(* headerDefSpacing; so with estimated line counts equal to the exact     *)
(* ones it equals the advance of the cursor on commit.                    *)
C18_EstimateMatchesCommit ==
  pc = "commit" =>
    LET c == checkedConcepts[idx]
    IN /\ EstimatedHeight(c) =
            EstLines(c.name) * (bodyFontSize + 2) * lineHeight * 35
            + EstLines(c.definition) * bodyFontSize * lineHeight * 35
            + conceptSpacing + headerDefSpacing
       /\ (EstLines(c.name) = c.name.wrapped
             /\ EstLines(c.definition) = c.definition.wrapped) =>
            EstimatedHeight(c) = ExactHeight(c)

(* C13: after any edits of the Columns input, the columnCount a layout    *)
(* run works with is in 1..3.                                             *)
C13_ColumnClamp == Running => columnCount \in 1..3

----------------------------------------------------------------------------
(* Properties of the data handlers *)

IsPrefix(P, Q) == Len(P) <= Len(Q) /\ \A i \in DOMAIN P : P[i] = Q[i]

(* C12: after any loads, pastes, uploads and checkbox clicks, a run lays  *)
(* out exactly the concepts whose checked flag is true, in list order; a  *)
(* source item with checked false is unchecked, and one with checked      *)
(* null, missing or true is checked, until its id is clicked.             *)
C12_CheckedOnly ==
  /\ Len(concepts) = Len(source)
  /\ \A i \in DOMAIN concepts :
       concepts[i].id \notin touched =>
         concepts[i].checked = (source[i].checked \in {"null", "missing", "true"})
  /\ Running => IsPrefix(IdsOf(placements), ExpectedIds(concepts))
  /\ \A k \in DOMAIN results :
       IF Len(ExpectedIds(results[k].concepts)) = 0
       THEN results[k].isNull
       ELSE IdsOf(results[k].placements) = ExpectedIds(results[k].concepts)

C12_Witness ==
  /\ Len(source) = 2
  /\ source[1].checked = "null" /\ source[2].checked = "false"
  /\ touched = {}
  /\ Len(results) = 1
  /\ results[1].concepts = concepts
  /\ IdsOf(results[1].placements) = <<0>>

(* C19: once the mount effects and the callbacks they started have        *)
(* finished, the concept list is empty, whatever localStorage holds and   *)
(* whatever the fetch returns, until the user pastes or uploads.          *)
C19_StartsBlank ==
  (phase = "mounted" /\ fetchState = "done" /\ loads = 0) => concepts = << >>

C20_Step ==
  /\ Len(concepts') > 0 => localStorage' = Stringify(concepts')
  /\ Len(concepts') = 0 => localStorage' = localStorage

C21_DistinctIds ==
  \A i, j \in DOMAIN concepts : i # j => concepts[i].id # concepts[j].id

(* The placements of layout P drawn before its i-th one on the same page *)
EarlierOnPage(P, i) == Cardinality({j \in 1..(i - 1) : P[j].page = P[i].page})

(* C22: with conceptsPerPage = M > 0 and columnCount = C, no page holds   *)
(* more than M + C - 1 placed concepts; a concept placed when its page    *)
(* already held M is alone in its column; and conceptsOnPage is the       *)
(* number of concepts placed on the current page, 0 on a new page.        *)
C22_CountCapWithColumns ==
  conceptsPerPage > 0 =>
    /\ \A P \in Layouts : \A i \in DOMAIN P :
         /\ OnPage(P, P[i].page) <= conceptsPerPage + columnCount - 1
         /\ EarlierOnPage(P, i) >= conceptsPerPage =>
              \A j \in DOMAIN P :
                (j # i /\ P[j].page = P[i].page) => P[j].column # P[i].column
    /\ Running => conceptsOnPage = OnPage(placements, pageCount - 1)

C22_Witness ==
  /\ conceptsPerPage = 1
  /\ columnCount = 2
  /\ Len(results) = 1
  /\ results[1].pages = 2
  /\ LET P == results[1].placements
     IN /\ Len(P) = 3
        /\ OnPage(P, 0) = 2
        /\ P[2].column = 1
        /\ P[3].page = 1 /\ P[3].column = 0
        /\ P[3].y = P[1].y

(* C23: between handlers, a non-null pdfPreviewUrl is a blob URL that has  *)
(* not been passed to URL.revokeObjectURL, whatever generateStudyGuide    *)
(* calls and checkbox clicks came before.                                 *)
C23_UrlNotRevoked ==
  (pc = "idle" /\ pdfPreviewUrl # 0) => pdfPreviewUrl \notin revoked

C24_Step ==
  error # "null" =>
    /\ error' # "null"
    /\ UNCHANGED <<loads, toggles, alerts, pc, results, cfgVars, urlVars>>

(* C24: once error holds a message it holds one in every later state: in  *)
(* the error view no paste, upload, checkbox click or run starts, and the *)
(* fetch and FileReader callbacks still pending set a message or the      *)
(* concepts, never null.                                                  *)
C24_ErrorAbsorbing == [][C24_Step]_vars

C24_Witness ==
  /\ error = "Failed to load concepts"
  /\ fetchState = "done"
  /\ loads = 2
  /\ reader = << >>
  /\ source = <<RawNull, RawFalse>>
  /\ localStorage = Stringify(concepts)
  /\ pdfPreviewUrl # 0

====
